---- MODULE Spec2Model ----
(***************************************************************************)
(* The SimpleKeyring of src/src/keyring.ts as a state machine.  Every      *)
(* public operation is an async function: it runs synchronously up to its  *)
(* next await of a host call (emitSnapKeyringEvent, saveState), is         *)
(* suspended there, and is resumed by the host with success or failure.    *)
(* One action models one synchronous stretch of one operation.             *)
(***************************************************************************)
EXTENDS Integers, FiniteSets, Sequences, Bags, TLC

\* ------------------------------------------------------------------ bounds

\* Accounts created in one run (uuid values handed out).
MaxAccounts == 2
\* submitRequest calls in one run.
MaxSubmits == 2
\* Public calls in one run that get as far as a host call.
MaxOps == 3
\* Calls suspended at a host call at the same time.
MaxInFlight == 2

\* ------------------------------------------------------------ JS values

\* A JavaScript value as typeof sees it: t is the type tag, s the content of a
\* string, f the own properties of an object (property name -> value).
Undefined == [t |-> "undefined", s |-> ""]
Str(x) == [t |-> "string", s |-> x]
Num(x) == [t |-> "number", s |-> x]
Obj(fields) == [t |-> "object", s |-> "", f |-> fields]

\* JS typeof.
TypeOf(v) == v.t

\* JS property read v[name] on a defined value: an own property of an object,
\* undefined for a missing property and for a property of a primitive.
Prop(v, name) ==
    IF v.t = "object" /\ name \in DOMAIN v.f THEN v.f[name] ELSE Undefined

\* Object spread {...a, ...b}: b's fields over a's.
Spread(a, b) ==
    [k \in (DOMAIN a) \cup (DOMAIN b) |-> IF k \in DOMAIN b THEN b[k] ELSE a[k]]

\* The empty object / empty Record<string, X>.
EmptyMap == [k \in {} |-> k]

\* m with key k removed (JS delete m[k]).
Delete(m, k) == [j \in (DOMAIN m) \ {k} |-> m[j]]

\* m with m[k] = v (JS assignment to a possibly new key).
Put(m, k, v) == [j \in (DOMAIN m) \cup {k} |-> IF j = k THEN v ELSE m[j]]

\* Object.values(m), as a set.
Values(m) == {m[k] : k \in DOMAIN m}

\* ---------------------------------------------------------- error kinds

\* The operations fail with new Error(message); the kind is the message's form.
NotFound == "NotFound"
DuplicateAddress == "DuplicateAddress"
InvalidData == "InvalidData"
UnsupportedMethod == "UnsupportedMethod"
\* A rejected emitSnapKeyringEvent and a rejected saveState.
EmitError == "EmitError"
StorageError == "StorageError"
\* The entry points' "Origin ... is not allowed to call ...".
PermissionDenied == "PermissionDenied"
Ok == "ok"

\* --------------------------------------------------------------- methods

\* EthMethod of @metamask/keyring-api, as the cases of approveRequest's switch.
StringPayloadMethods ==
    {"personal_sign", "eth_sign", "eth_signTypedData_v1",
     "eth_signTypedData_v3", "eth_signTypedData_v4", "eth_signUserOperation"}

StructuredPayloadMethods ==
    {"eth_signTransaction", "eth_prepareUserOperation", "eth_patchUserOperation"}

\* A method that is no member of EthMethod.
OtherMethods == {"eth_other"}

Methods == StringPayloadMethods \cup StructuredPayloadMethods \cup OtherMethods

\* The methods createAccount gives every account.
AccountMethods ==
    {"personal_sign", "eth_sign", "eth_signTransaction",
     "eth_signTypedData_v1", "eth_signTypedData_v3", "eth_signTypedData_v4"}

\* EthAccountType.Eoa.
Eoa == "eip155:eoa"

\* ---------------------------------------------------------------- inputs

\* Addresses a caller passes in options.address.
Addresses == {Str("0xA"), Str("0xB"), Str("")}

\* The options.hdPath the callers pass.
HdPath == Str("m/44'/60'/0'/0/0")

\* Arguments of createAccount: options with an address (a second address, the
\* empty string) and options without one.
CreateOptions ==
    {[address |-> a, hdPath |-> HdPath] : a \in Addresses} \cup {[hdPath |-> HdPath]}

\* Account ids a caller can name: the uuids handed out so far, and 0 for an id
\* that was never handed out.
NoId == 0
AccountIds == 0 .. MaxAccounts

\* Options an updateAccount caller sends.
Renamed == [label |-> Str("renamed")]

\* Arguments of updateAccount: an account record for id i that claims address a,
\* complete (with new options, methods and type) or with only id and address.
UpdateInputs(i) ==
    {[id |-> i, address |-> a, options |-> Renamed,
      methods |-> AccountMethods, type |-> Eoa] : a \in {Str("0xB")}}
    \cup {[id |-> i, address |-> a] : a \in {Str("0xB")}}

\* Request ids the callers use (KeyringRequest.id is chosen by the caller).
RequestIds == {"r1", "r2"}

\* Arguments of approveRequest: no data, a string, and objects without a data
\* property, with a string data property, with a non-string data property.
ApproveData ==
    {Undefined,
     Str("not-an-object"),
     Obj(EmptyMap),
     Obj([data |-> Str("0xdead")]),
     Obj([data |-> Num("7")]),
     Obj([to |-> Str("0x1"), value |-> Str("1")])}

\* ----------------------------------------------------------------- state

VARIABLES
    wallets,          \* #state.wallets: account id -> Wallet
    pendingRequests,  \* #state.pendingRequests: request id -> KeyringRequest
    durable,          \* the state the host last stored for saveState
    nextId,           \* uuids handed out by v4() so far
    calls,            \* the public calls suspended at an await (a bag)
    started,          \* public calls that got as far as a host call
    last,             \* the response delivered by the step just taken
    nextSub,          \* submitRequest calls so far
    latestSub,        \* request id -> number of its latest submission (0: none)
    removals,         \* submission -> times a call removed it from pendingRequests
    notified,         \* submission -> RequestApproved/RequestRejected events sent for it
    okResolved,       \* submissions whose approveRequest/rejectRequest returned success
    hostFailed,       \* the host call completed by the step just taken was rejected
    caller,           \* origin and method of the request an entry point took on this step
    keyring,          \* index.ts keyring: the instance getKeyring returns, if any
    constructed,      \* SimpleKeyring instances getKeyring has constructed
    loading,          \* the entry points suspended in await getKeyring() (a bag)
    served,           \* the instances an entry point has called a method of
    deleted,          \* ids a deleteAccount took out of the map and returned success for
    everFailed        \* the host has rejected an emit or a saveState so far

vars ==
    <<wallets, pendingRequests, durable, nextId, calls, started, last,
      nextSub, latestSub, removals, notified, okResolved, hostFailed, caller,
      keyring, constructed, loading, served, deleted, everFailed>>

\* What has happened to deletions and to host calls so far.
history == <<deleted, everFailed>>

\* The module-level keyring of index.ts and what tells of its use.
processVars == <<keyring, constructed, loading, served>>

requestGhosts == <<nextSub, latestSub, removals, notified, okResolved>>

\* The aggregate saveState hands to the host.
KeyringState == [wallets |-> wallets, pendingRequests |-> pendingRequests]

NoAccount == EmptyMap
NoSnapshot == [wallets |-> EmptyMap, pendingRequests |-> EmptyMap]

NoRequest ==
    [id |-> "", account |-> NoId, request |-> [method |-> "", params |-> Undefined]]

\* A call suspended at an await: op is the operation, pc the host call it waits
\* for ("emit" or "persist"), aid/rid the account or request id it works on,
\* incoming the account updateAccount was given, acct the account of its
\* notification (account, newAccount), pendingCreation the flag of the Wallet
\* object updateAccount holds a reference to, idx the number in the suggested
\* account name, request the request submitRequest was given or approveRequest
\* looked up, data the data approveRequest was given and result the result it
\* built, sub the submission stored or removed, snapshot the state handed to
\* saveState.
Call(op, pc) ==
    [op |-> op, pc |-> pc, aid |-> NoId, rid |-> "", incoming |-> NoAccount,
     acct |-> NoAccount, pendingCreation |-> FALSE, idx |-> 0,
     request |-> NoRequest, data |-> Undefined, result |-> Undefined, sub |-> 0,
     snapshot |-> NoSnapshot]

\* The response a caller gets: the result is "ok" or the kind of the error,
\* arg names what the call was about, value holds what a successful call returned.
Response(op, arg, result, value) ==
    [op |-> op, arg |-> arg, result |-> result, value |-> value]

\* What a call was about: the account id, the request id, the address and the
\* approval data it was given.
NoArg == [aid |-> NoId, rid |-> "", address |-> Undefined, data |-> Undefined]

\* The step delivered no response.
NoResponse == Response("none", NoArg, Ok, {})

\* The step was not taken on by an entry point of the snap.
NoCaller == [origin |-> "", method |-> ""]

\* let keyring: SimpleKeyring, undefined until getKeyring constructs an instance;
\* the instances are numbered in the order of their construction.
NoKeyring == 0

Init ==
    /\ wallets = EmptyMap
    /\ pendingRequests = EmptyMap
    /\ durable = [wallets |-> EmptyMap, pendingRequests |-> EmptyMap]
    /\ nextId = 0
    /\ calls = EmptyBag
    /\ started = 0
    /\ last = NoResponse
    /\ nextSub = 0
    /\ latestSub = [r \in RequestIds |-> 0]
    /\ removals = [s \in 1 .. MaxSubmits |-> 0]
    /\ notified = [s \in 1 .. MaxSubmits |-> 0]
    /\ okResolved = {}
    /\ hostFailed = FALSE
    /\ caller = NoCaller
    /\ keyring = NoKeyring
    /\ constructed = 0
    /\ loading = EmptyBag
    /\ served = {}
    /\ deleted = {}
    /\ everFailed = FALSE

\* The snap after its first request: a listAccounts has had getKeyring load the
\* state and construct the keyring, and its response is with its caller.
InitLoaded ==
    /\ wallets = EmptyMap
    /\ pendingRequests = EmptyMap
    /\ durable = [wallets |-> EmptyMap, pendingRequests |-> EmptyMap]
    /\ nextId = 0
    /\ calls = EmptyBag
    /\ started = 0
    /\ last = NoResponse
    /\ nextSub = 0
    /\ latestSub = [r \in RequestIds |-> 0]
    /\ removals = [s \in 1 .. MaxSubmits |-> 0]
    /\ notified = [s \in 1 .. MaxSubmits |-> 0]
    /\ okResolved = {}
    /\ hostFailed = FALSE
    /\ caller = NoCaller
    /\ keyring = 1
    /\ constructed = 1
    /\ loading = EmptyBag
    /\ served = {1}
    /\ deleted = {}
    /\ everFailed = FALSE

\* The calls suspended now.
Suspended == BagToSet(calls)

\* The keyring runs its next synchronous stretch once the response of the last
\* one is with its caller.
Ready == last.op = "none"

\* A call can start and be suspended at an await.
CanSuspend == started < MaxOps /\ BagCardinality(calls) < MaxInFlight

\* The call returns to its caller on the step it started on.
ReturnNow(op, arg, result, value) ==
    /\ Ready
    /\ last' = Response(op, arg, result, value)
    /\ hostFailed' = FALSE
    /\ UNCHANGED <<calls, started>>

\* The call is suspended at its first await.
Suspend(c) ==
    /\ Ready
    /\ started' = started + 1
    /\ calls' = calls (+) SetToBag({c})
    /\ last' = NoResponse
    /\ hostFailed' = FALSE

\* The suspended call c goes on to its next await as d.
Continue(c, d) ==
    /\ Ready
    /\ calls' = (calls (-) SetToBag({c})) (+) SetToBag({d})
    /\ last' = NoResponse
    /\ UNCHANGED started

\* The suspended call c returns to its caller.
Finish(c, arg, result, value) ==
    /\ Ready
    /\ calls' = calls (-) SetToBag({c})
    /\ last' = Response(c.op, arg, result, value)
    /\ UNCHANGED started

\* The host completes the host call a suspended call waits for, with success or
\* with a rejection; no entry point runs on this step.
Settled(ok) ==
    /\ hostFailed' = ~ ok
    /\ everFailed' = (everFailed \/ ~ ok)
    /\ caller' = NoCaller
    /\ UNCHANGED processVars

\* The host call settles for a call that is no deleteAccount about to return.
Resumed(ok) == Settled(ok) /\ UNCHANGED deleted

\* The keyring is called by a caller the entry points have let through.
Internal == caller' = NoCaller /\ UNCHANGED <<processVars, history>>

\* The host completes the saveState the call c waits for: the state it was
\* handed becomes the stored one.
Stored(c) == durable' = c.snapshot

\* ------------------------------------------------------- account store

\* options[name] of a Record<string, Json>: undefined when the key is missing.
Field(options, name) == IF name \in DOMAIN options THEN options[name] ELSE Undefined

\* util.isUniqueAddress: no wallet holds the address.
isUniqueAddress(address, ws) == ~ \E w \in ws : w.account.address = address

\* A createAccount without the uniqueness check of its first lines.
AddressInUse_Never(address) == FALSE

\* createAccount's guard: the address is taken, the call throws.
AddressInUse(address) == ~ isUniqueAddress(address, Values(wallets))

\* listAccounts(): the accounts of all wallets.
listAccounts == {w.account : w \in Values(wallets)}

ListAccounts ==
    /\ ReturnNow("listAccounts", NoArg, Ok, listAccounts)
    /\ UNCHANGED <<wallets, pendingRequests, durable, nextId, requestGhosts>>

\* getAccount(id): the account, or the error of throwError.
GetAccount(id) ==
    /\ IF id \in DOMAIN wallets
       THEN ReturnNow("getAccount", [NoArg EXCEPT !.aid = id], Ok, {wallets[id].account})
       ELSE ReturnNow("getAccount", [NoArg EXCEPT !.aid = id], NotFound, {})
    /\ UNCHANGED <<wallets, pendingRequests, durable, nextId, requestGhosts>>

\* The account createAccount builds for a fresh uuid.
NewAccount(id, options) ==
    [id |-> id, options |-> options, address |-> Field(options, "address"),
     methods |-> AccountMethods, type |-> Eoa]

\* The Wallet createAccount stores for an account.
NewWallet(account, pending) ==
    [account |-> account, hdPath |-> Field(account.options, "hdPath"),
     pendingCreation |-> pending]

\* createAccount up to its await of the AccountCreated notification.
CreateAccount(options) ==
    /\ IF AddressInUse(Field(options, "address"))
       THEN /\ ReturnNow("createAccount",
                         [NoArg EXCEPT !.address = Field(options, "address")],
                         DuplicateAddress, {})
            /\ UNCHANGED <<wallets, nextId>>
       ELSE /\ CanSuspend
            /\ nextId < MaxAccounts
            /\ nextId' = nextId + 1
            /\ LET account == NewAccount(nextId + 1, options)
               IN /\ wallets' = Put(wallets, account.id, NewWallet(account, TRUE))
                  /\ Suspend([Call("createAccount", "emit") EXCEPT
                                 !.aid = account.id, !.acct = account,
                                 !.idx = Cardinality(DOMAIN wallets')])
    /\ UNCHANGED <<pendingRequests, durable, requestGhosts>>

\* A createAccount that goes on to saveState when its notification failed.
CreateAccountEmitted_Swallow(c, ok) ==
    /\ c.op = "createAccount" /\ c.pc = "emit"
    /\ Resumed(ok)
    /\ wallets' = Put(wallets, c.aid, NewWallet(c.acct, FALSE))
    /\ Continue(c, [c EXCEPT !.pc = "persist",
                        !.snapshot = [KeyringState EXCEPT !.wallets = wallets']])
    /\ UNCHANGED <<pendingRequests, durable, nextId, requestGhosts>>

\* A createAccount that takes its wallet out of the map when its notification
\* fails.
CreateAccountEmitted_Rollback(c, ok) ==
    /\ c.op = "createAccount" /\ c.pc = "emit"
    /\ Resumed(ok)
    /\ IF ok
       THEN /\ wallets' = Put(wallets, c.aid, NewWallet(c.acct, FALSE))
            /\ Continue(c, [c EXCEPT !.pc = "persist",
                               !.snapshot = [KeyringState EXCEPT !.wallets = wallets']])
       ELSE /\ Finish(c, [NoArg EXCEPT !.aid = c.aid], EmitError, {})
            /\ wallets' = Delete(wallets, c.aid)
    /\ UNCHANGED <<pendingRequests, durable, nextId, requestGhosts>>

\* createAccount from the end of the notification to its await of saveState.
CreateAccountEmitted(c, ok) ==
    /\ c.op = "createAccount" /\ c.pc = "emit"
    /\ Resumed(ok)
    /\ IF ok
       THEN /\ wallets' = Put(wallets, c.aid, NewWallet(c.acct, FALSE))
            /\ Continue(c, [c EXCEPT !.pc = "persist",
                               !.snapshot = [KeyringState EXCEPT !.wallets = wallets']])
       ELSE /\ Finish(c, [NoArg EXCEPT !.aid = c.aid], EmitError, {})
            /\ UNCHANGED wallets
    /\ UNCHANGED <<pendingRequests, durable, nextId, requestGhosts>>

\* createAccount from the end of saveState to its return.
CreateAccountSaved(c, ok) ==
    /\ c.op = "createAccount" /\ c.pc = "persist"
    /\ Resumed(ok)
    /\ IF ok
       THEN Stored(c) /\ Finish(c, [NoArg EXCEPT !.aid = c.aid], Ok, {c.acct})
       ELSE UNCHANGED durable /\ Finish(c, [NoArg EXCEPT !.aid = c.aid], StorageError, {})
    /\ UNCHANGED <<wallets, pendingRequests, nextId, requestGhosts>>

\* The account updateAccount builds: the incoming fields over the stored ones,
\* the stored address restored.
MergedAccount(stored, account) ==
    Spread(Spread(stored, account), [address |-> stored.address])

\* updateAccount up to its await of the AccountUpdated notification.
UpdateAccount(account) ==
    /\ IF account.id \notin DOMAIN wallets
       THEN ReturnNow("updateAccount", [NoArg EXCEPT !.aid = account.id], NotFound, {})
       ELSE /\ CanSuspend
            /\ LET wallet == wallets[account.id]
               IN Suspend([Call("updateAccount", "emit") EXCEPT
                              !.aid = account.id,
                              !.incoming = account,
                              !.acct = MergedAccount(wallet.account, account),
                              !.pendingCreation = wallet.pendingCreation])
    /\ UNCHANGED <<wallets, pendingRequests, durable, nextId, requestGhosts>>

\* The Wallet object the call holds a reference to is still the one stored under
\* its id: createAccount stores one object per id with pendingCreation true and
\* later a second one with pendingCreation false, and none after a delete.
HoldsStoredWallet(c) ==
    c.aid \in DOMAIN wallets /\ wallets[c.aid].pendingCreation = c.pendingCreation

\* updateAccount from the end of the notification to its await of saveState:
\* wallet.account = newAccount writes the object the call looked up.
UpdateAccountEmitted(c, ok) ==
    /\ c.op = "updateAccount" /\ c.pc = "emit"
    /\ Resumed(ok)
    /\ IF ok
       THEN /\ wallets' = IF HoldsStoredWallet(c)
                          THEN [wallets EXCEPT ![c.aid].account = c.acct]
                          ELSE wallets
            /\ Continue(c, [c EXCEPT !.pc = "persist",
                               !.snapshot = [KeyringState EXCEPT !.wallets = wallets']])
       ELSE /\ Finish(c, [NoArg EXCEPT !.aid = c.aid], EmitError, {})
            /\ UNCHANGED wallets
    /\ UNCHANGED <<pendingRequests, durable, nextId, requestGhosts>>

\* updateAccount and deleteAccount from the end of saveState to their return.
AccountSaved(c, ok) ==
    /\ c.op \in {"updateAccount", "deleteAccount"} /\ c.pc = "persist"
    /\ Settled(ok)
    /\ deleted' = IF ok /\ c.op = "deleteAccount" /\ c.aid \notin DOMAIN wallets
                  THEN deleted \cup {c.aid}
                  ELSE deleted
    /\ IF ok
       THEN Stored(c) /\ Finish(c, [NoArg EXCEPT !.aid = c.aid], Ok, {})
       ELSE UNCHANGED durable /\ Finish(c, [NoArg EXCEPT !.aid = c.aid], StorageError, {})
    /\ UNCHANGED <<wallets, pendingRequests, nextId, requestGhosts>>

\* deleteAccount up to its await of the AccountDeleted notification.
DeleteAccount(id) ==
    /\ CanSuspend
    /\ Suspend([Call("deleteAccount", "emit") EXCEPT !.aid = id])
    /\ UNCHANGED <<wallets, pendingRequests, durable, nextId, requestGhosts>>

\* A deleteAccount that also drops the pending requests of the account.
DeleteAccountEmitted_Cascade(c, ok) ==
    /\ c.op = "deleteAccount" /\ c.pc = "emit"
    /\ Resumed(ok)
    /\ IF ok
       THEN /\ wallets' = Delete(wallets, c.aid)
            /\ pendingRequests' =
                   [k \in {j \in DOMAIN pendingRequests :
                               pendingRequests[j].account # c.aid} |-> pendingRequests[k]]
            /\ Continue(c, [c EXCEPT !.pc = "persist",
                               !.snapshot = [wallets |-> wallets',
                                             pendingRequests |-> pendingRequests']])
       ELSE /\ Finish(c, [NoArg EXCEPT !.aid = c.aid], EmitError, {})
            /\ UNCHANGED <<wallets, pendingRequests>>
    /\ UNCHANGED <<durable, nextId, requestGhosts>>

\* deleteAccount from the end of the notification to its await of saveState.
DeleteAccountEmitted(c, ok) ==
    /\ c.op = "deleteAccount" /\ c.pc = "emit"
    /\ Resumed(ok)
    /\ IF ok
       THEN /\ wallets' = Delete(wallets, c.aid)
            /\ Continue(c, [c EXCEPT !.pc = "persist",
                               !.snapshot = [KeyringState EXCEPT !.wallets = wallets']])
       ELSE /\ Finish(c, [NoArg EXCEPT !.aid = c.aid], EmitError, {})
            /\ UNCHANGED wallets
    /\ UNCHANGED <<pendingRequests, durable, nextId, requestGhosts>>

\* IsPendingCreation(): some wallet is flagged.
IsPendingCreation ==
    /\ ReturnNow("IsPendingCreation", NoArg, Ok,
                 {[flag |-> \E w \in Values(wallets) : w.pendingCreation]})
    /\ UNCHANGED <<wallets, pendingRequests, durable, nextId, requestGhosts>>

\* --------------------------------------------------------- request queue

\* Requests a caller submits: KeyringRequest {id, account, request: {method,
\* params}}, for the account of the first uuid.
Request(id, method) ==
    [id |-> id, account |-> NoId + 1,
     request |-> [method |-> method, params |-> Str("0x68656c6c6f")]]

\* listRequests(): the pending requests.
listRequests == Values(pendingRequests)

ListRequests ==
    /\ ReturnNow("listRequests", NoArg, Ok, listRequests)
    /\ UNCHANGED <<wallets, pendingRequests, durable, nextId, requestGhosts>>

\* getRequest(id): the request, or the error of throwError.
GetRequest(id) ==
    /\ IF id \in DOMAIN pendingRequests
       THEN ReturnNow("getRequest", [NoArg EXCEPT !.rid = id], Ok, {pendingRequests[id]})
       ELSE ReturnNow("getRequest", [NoArg EXCEPT !.rid = id], NotFound, {})
    /\ UNCHANGED <<wallets, pendingRequests, durable, nextId, requestGhosts>>

\* #getCurrentUrl(): the configured endpoint of the runtime mode, undefined when
\* the environment sets none.
CurrentUrls == {Undefined, Str("https://gardiometamasksnap.web.app")}

\* The acknowledgment submitRequest returns.
SubmitResponse(url) ==
    [pending |-> TRUE,
     redirect |-> [url |-> url,
                   message |-> "Redirecting to Gardio Snap to sign transaction"]]

\* A submitRequest that keeps the request already stored under the id.
StoreRequest_KeepFirst(request) ==
    IF request.id \in DOMAIN pendingRequests
    THEN pendingRequests
    ELSE Put(pendingRequests, request.id, request)

\* pendingRequests[request.id] = request.
StoreRequest(request) == Put(pendingRequests, request.id, request)

\* submitRequest (#asyncSubmitRequest) up to its await of saveState.
SubmitRequest(request) ==
    /\ CanSuspend
    /\ nextSub < MaxSubmits
    /\ pendingRequests' = StoreRequest(request)
    /\ nextSub' = nextSub + 1
    /\ latestSub' = [latestSub EXCEPT ![request.id] = nextSub + 1]
    /\ Suspend([Call("submitRequest", "persist") EXCEPT
                   !.rid = request.id, !.request = request, !.sub = nextSub + 1,
                   !.snapshot = [KeyringState EXCEPT
                                    !.pendingRequests = pendingRequests']])
    /\ UNCHANGED <<wallets, durable, nextId, removals, notified, okResolved>>

\* A submitRequest that acknowledges whether or not saveState succeeded.
SubmitRequestSaved_IgnoreFailure(c, ok, url) ==
    /\ c.op = "submitRequest" /\ c.pc = "persist"
    /\ Resumed(ok)
    /\ IF ok THEN Stored(c) ELSE UNCHANGED durable
    /\ Finish(c, [NoArg EXCEPT !.rid = c.rid], Ok, {SubmitResponse(url)})
    /\ UNCHANGED <<wallets, pendingRequests, nextId, requestGhosts>>

\* submitRequest from the end of saveState to its return.
SubmitRequestSaved(c, ok, url) ==
    /\ c.op = "submitRequest" /\ c.pc = "persist"
    /\ Resumed(ok)
    /\ IF ok
       THEN Stored(c) /\ Finish(c, [NoArg EXCEPT !.rid = c.rid], Ok, {SubmitResponse(url)})
       ELSE UNCHANGED durable /\ Finish(c, [NoArg EXCEPT !.rid = c.rid], StorageError, {})
    /\ UNCHANGED <<wallets, pendingRequests, nextId, requestGhosts>>

\* The result approveRequest starts from (let result = []).
EmptyArray == Obj(EmptyMap)

\* The permissive dispatch: only personal_sign is special-cased, every other
\* method takes the data as it is, and nothing is rejected.
ShapeResult_Permissive(method, data) ==
    IF method = "personal_sign"
    THEN IF Prop(data, "data") # Undefined /\ TypeOf(Prop(data, "data")) = "string"
         THEN [error |-> Ok, result |-> Prop(data, "data")]
         ELSE [error |-> Ok, result |-> EmptyArray]
    ELSE [error |-> Ok, result |-> IF data # Undefined THEN data ELSE EmptyArray]

\* The exhaustive dispatch without the type test of the structured payloads.
ShapeResult_NoObjectCheck(method, data) ==
    IF data # Undefined
    THEN CASE method \in StringPayloadMethods ->
                 IF Prop(data, "data") # Undefined /\ TypeOf(Prop(data, "data")) = "string"
                 THEN [error |-> Ok, result |-> Prop(data, "data")]
                 ELSE [error |-> InvalidData, result |-> EmptyArray]
           [] method \in StructuredPayloadMethods -> [error |-> Ok, result |-> data]
           [] OTHER -> [error |-> UnsupportedMethod, result |-> EmptyArray]
    ELSE [error |-> InvalidData, result |-> EmptyArray]

\* approveRequest's validation of data against the request's method: the error
\* it throws ("ok" for none) and the result it goes on with.
ShapeResult(method, data) ==
    IF data # Undefined
    THEN CASE method \in StringPayloadMethods ->
                 IF Prop(data, "data") # Undefined /\ TypeOf(Prop(data, "data")) = "string"
                 THEN [error |-> Ok, result |-> Prop(data, "data")]
                 ELSE [error |-> InvalidData, result |-> EmptyArray]
           [] method \in StructuredPayloadMethods ->
                 IF TypeOf(data) = "object"
                 THEN [error |-> Ok, result |-> data]
                 ELSE [error |-> InvalidData, result |-> EmptyArray]
           [] OTHER -> [error |-> UnsupportedMethod, result |-> EmptyArray]
    ELSE [error |-> InvalidData, result |-> EmptyArray]

\* A removal that leaves the request in the map.
RemovePendingRequest_NoDelete(c) ==
    /\ pendingRequests' = pendingRequests
    /\ removals' = [removals EXCEPT ![latestSub[c.rid]] = @ + 1]
    /\ Suspend([c EXCEPT !.sub = latestSub[c.rid],
                         !.snapshot = [KeyringState EXCEPT
                                          !.pendingRequests = pendingRequests']])

\* #removePendingRequest up to its await of saveState: the call c deletes the
\* request and hands the state to saveState.
RemovePendingRequest(c) ==
    /\ pendingRequests' = Delete(pendingRequests, c.rid)
    /\ removals' = [removals EXCEPT ![latestSub[c.rid]] = @ + 1]
    /\ Suspend([c EXCEPT !.sub = latestSub[c.rid],
                         !.snapshot = [KeyringState EXCEPT
                                          !.pendingRequests = pendingRequests']])

\* An approveRequest that removes the request before it validates the data.
ApproveRequest_RemoveFirst(id, data) ==
    /\ LET arg == [NoArg EXCEPT !.rid = id, !.data = data]
       IN IF id \notin DOMAIN pendingRequests
          THEN /\ ReturnNow("approveRequest", arg, NotFound, {})
               /\ UNCHANGED <<pendingRequests, removals>>
          ELSE LET shaped == ShapeResult(pendingRequests[id].request.method, data)
               IN IF shaped.error # Ok
                  THEN /\ ReturnNow("approveRequest", arg, shaped.error, {})
                       /\ pendingRequests' = Delete(pendingRequests, id)
                       /\ UNCHANGED removals
                  ELSE /\ CanSuspend
                       /\ RemovePendingRequest(
                              [Call("approveRequest", "persist") EXCEPT
                                  !.rid = id, !.request = pendingRequests[id],
                                  !.data = data, !.result = shaped.result])
    /\ UNCHANGED <<wallets, durable, nextId, nextSub, latestSub, notified, okResolved>>

\* approveRequest up to its await in #removePendingRequest.
ApproveRequest(id, data) ==
    /\ LET arg == [NoArg EXCEPT !.rid = id, !.data = data]
       IN IF id \notin DOMAIN pendingRequests
          THEN /\ ReturnNow("approveRequest", arg, NotFound, {})
               /\ UNCHANGED <<pendingRequests, removals>>
          ELSE LET shaped == ShapeResult(pendingRequests[id].request.method, data)
               IN IF shaped.error # Ok
                  THEN /\ ReturnNow("approveRequest", arg, shaped.error, {})
                       /\ UNCHANGED <<pendingRequests, removals>>
                  ELSE /\ CanSuspend
                       /\ RemovePendingRequest(
                              [Call("approveRequest", "persist") EXCEPT
                                  !.rid = id, !.request = pendingRequests[id],
                                  !.data = data, !.result = shaped.result])
    /\ UNCHANGED <<wallets, durable, nextId, nextSub, latestSub, notified, okResolved>>

\* rejectRequest up to its await in #removePendingRequest.
RejectRequest(id) ==
    /\ IF id \notin DOMAIN pendingRequests
       THEN /\ ReturnNow("rejectRequest", [NoArg EXCEPT !.rid = id], NotFound, {})
            /\ UNCHANGED <<pendingRequests, removals>>
       ELSE /\ CanSuspend
            /\ RemovePendingRequest([Call("rejectRequest", "persist") EXCEPT !.rid = id])
    /\ UNCHANGED <<wallets, durable, nextId, nextSub, latestSub, notified, okResolved>>

\* A resolution that sends its notification whether or not saveState succeeded.
RequestSaved_EmitAnyway(c, ok) ==
    /\ c.op \in {"approveRequest", "rejectRequest"} /\ c.pc = "persist"
    /\ Resumed(ok)
    /\ IF ok THEN Stored(c) ELSE UNCHANGED durable
    /\ notified' = [notified EXCEPT ![c.sub] = @ + 1]
    /\ Continue(c, [c EXCEPT !.pc = "emit"])
    /\ UNCHANGED <<wallets, pendingRequests, nextId, nextSub, latestSub, removals,
                   okResolved>>

\* approveRequest and rejectRequest from the end of saveState to their await of
\* the RequestApproved / RequestRejected notification.
RequestSaved(c, ok) ==
    /\ c.op \in {"approveRequest", "rejectRequest"} /\ c.pc = "persist"
    /\ Resumed(ok)
    /\ IF ok
       THEN /\ Stored(c)
            /\ notified' = [notified EXCEPT ![c.sub] = @ + 1]
            /\ Continue(c, [c EXCEPT !.pc = "emit"])
       ELSE /\ Finish(c, [NoArg EXCEPT !.rid = c.rid], StorageError, {})
            /\ UNCHANGED <<durable, notified>>
    /\ UNCHANGED <<wallets, pendingRequests, nextId, nextSub, latestSub, removals,
                   okResolved>>

\* A resolution that puts the request back when its notification failed.
RequestEmitted_Rollback(c, ok) ==
    /\ c.op \in {"approveRequest", "rejectRequest"} /\ c.pc = "emit"
    /\ Resumed(ok)
    /\ IF ok
       THEN /\ Finish(c, [NoArg EXCEPT !.rid = c.rid], Ok, {})
            /\ okResolved' = okResolved \cup {c.sub}
            /\ UNCHANGED pendingRequests
       ELSE /\ Finish(c, [NoArg EXCEPT !.rid = c.rid], EmitError, {})
            /\ pendingRequests' = Put(pendingRequests, c.rid, [c.request EXCEPT !.id = c.rid])
            /\ UNCHANGED okResolved
    /\ UNCHANGED <<wallets, durable, nextId, nextSub, latestSub, removals, notified>>

\* approveRequest and rejectRequest from the end of the notification to their
\* return.
RequestEmitted(c, ok) ==
    /\ c.op \in {"approveRequest", "rejectRequest"} /\ c.pc = "emit"
    /\ Resumed(ok)
    /\ IF ok
       THEN /\ Finish(c, [NoArg EXCEPT !.rid = c.rid], Ok, {})
            /\ okResolved' = okResolved \cup {c.sub}
       ELSE /\ Finish(c, [NoArg EXCEPT !.rid = c.rid], EmitError, {})
            /\ UNCHANGED okResolved
    /\ UNCHANGED <<wallets, pendingRequests, durable, nextId, nextSub, latestSub,
                   removals, notified>>

\* The response of the last step reaches its caller.
Deliver ==
    /\ ~ Ready
    /\ last' = NoResponse
    /\ hostFailed' = FALSE
    /\ caller' = NoCaller
    /\ UNCHANGED <<wallets, pendingRequests, durable, nextId, calls, started,
                   requestGhosts, processVars, history>>

\* -------------------------------------------------------------------- next

\* The operations on accounts.
AccountStep ==
    \/ ListAccounts /\ Internal
    \/ \E id \in 0 .. nextId : GetAccount(id) /\ Internal
    \/ \E options \in CreateOptions : CreateAccount(options) /\ Internal
    \/ \E c \in Suspended, ok \in BOOLEAN : CreateAccountEmitted(c, ok)
    \/ \E c \in Suspended, ok \in BOOLEAN : CreateAccountSaved(c, ok)
    \/ \E id \in 0 .. nextId : \E account \in UpdateInputs(id) :
           UpdateAccount(account) /\ Internal
    \/ \E c \in Suspended, ok \in BOOLEAN : UpdateAccountEmitted(c, ok)
    \/ \E id \in 0 .. nextId : DeleteAccount(id) /\ Internal
    \/ \E c \in Suspended, ok \in BOOLEAN : DeleteAccountEmitted(c, ok)
    \/ \E c \in Suspended, ok \in BOOLEAN : AccountSaved(c, ok)
    \/ IsPendingCreation /\ Internal

\* The operations on requests.
RequestStep ==
    \/ ListRequests /\ Internal
    \/ \E id \in RequestIds : GetRequest(id) /\ Internal
    \/ \E id \in RequestIds, method \in Methods :
           SubmitRequest(Request(id, method)) /\ Internal
    \/ \E c \in Suspended, ok \in BOOLEAN, url \in CurrentUrls : SubmitRequestSaved(c, ok, url)
    \/ \E id \in RequestIds, data \in ApproveData : ApproveRequest(id, data) /\ Internal
    \/ \E id \in RequestIds : RejectRequest(id) /\ Internal
    \/ \E c \in Suspended, ok \in BOOLEAN : RequestSaved(c, ok)
    \/ \E c \in Suspended, ok \in BOOLEAN : RequestEmitted(c, ok)

Next == AccountStep \/ RequestStep \/ Deliver

\* The keyring under every interleaving of all its operations.
Spec == Init /\ [][Next]_vars

\* The keyring under every interleaving of the account operations.
NextAccounts == AccountStep \/ Deliver
SpecAccounts == Init /\ [][NextAccounts]_vars

\* The keyring under every interleaving of the request operations.
NextRequests == RequestStep \/ Deliver
SpecRequests == Init /\ [][NextRequests]_vars

\* The account a mixed run creates, the request it submits and the data it
\* approves with: one address, one request id, a string-payload and an unknown
\* method, no data, a string and a well-formed string payload.
MixedOptions == {[address |-> Str("0xA"), hdPath |-> HdPath]}
MixedRequests == {Request("r1", m) : m \in {"personal_sign", "eth_other"}}
MixedData == {Undefined, Str("not-an-object"), Obj([data |-> Str("0xdead")])}

\* The operations on accounts and on requests together.
KeyringStep ==
    \/ ListAccounts /\ Internal
    \/ \E id \in 0 .. nextId : GetAccount(id) /\ Internal
    \/ \E options \in MixedOptions : CreateAccount(options) /\ Internal
    \/ \E c \in Suspended, ok \in BOOLEAN : CreateAccountEmitted(c, ok)
    \/ \E c \in Suspended, ok \in BOOLEAN : CreateAccountSaved(c, ok)
    \/ \E id \in 0 .. nextId : \E account \in UpdateInputs(id) :
           UpdateAccount(account) /\ Internal
    \/ \E c \in Suspended, ok \in BOOLEAN : UpdateAccountEmitted(c, ok)
    \/ \E id \in 0 .. nextId : DeleteAccount(id) /\ Internal
    \/ \E c \in Suspended, ok \in BOOLEAN : DeleteAccountEmitted(c, ok)
    \/ \E c \in Suspended, ok \in BOOLEAN : AccountSaved(c, ok)
    \/ ListRequests /\ Internal
    \/ \E request \in MixedRequests : GetRequest(request.id) /\ Internal
    \/ \E request \in MixedRequests : SubmitRequest(request) /\ Internal
    \/ \E c \in Suspended, ok \in BOOLEAN, url \in CurrentUrls : SubmitRequestSaved(c, ok, url)
    \/ \E request \in MixedRequests, data \in MixedData :
           ApproveRequest(request.id, data) /\ Internal
    \/ \E request \in MixedRequests : RejectRequest(request.id) /\ Internal
    \/ \E c \in Suspended, ok \in BOOLEAN : RequestSaved(c, ok)
    \/ \E c \in Suspended, ok \in BOOLEAN : RequestEmitted(c, ok)

\* The keyring under every interleaving of account and request operations.
NextKeyring == KeyringStep \/ Deliver
SpecKeyring == Init /\ [][NextKeyring]_vars

\* ----------------------------------------------------------- entry points

\* InternalMethod.IsPendingCreation.
IsPendingCreationMethod == "snap.internal.isPendingCreation"

\* The methods a request names: KeyringRpcMethod of @metamask/keyring-api and
\* the snap's internal method.
RpcMethods ==
    {"keyring_listAccounts", "keyring_getAccount", "keyring_createAccount",
     "keyring_filterAccountChains", "keyring_updateAccount", "keyring_deleteAccount",
     "keyring_exportAccount", "keyring_listRequests", "keyring_getRequest",
     "keyring_submitRequest", "keyring_approveRequest", "keyring_rejectRequest",
     IsPendingCreationMethod}

\* What the two dapp origins may call.
DappPermissions ==
    {"keyring_listAccounts", "keyring_getAccount", "keyring_createAccount",
     "keyring_updateAccount", "keyring_deleteAccount", "keyring_listRequests",
     "keyring_getRequest", "keyring_approveRequest", "keyring_rejectRequest",
     IsPendingCreationMethod}

\* originPermissions: origin -> the methods it may call.
originPermissions ==
    [o \in {"metamask", "http://localhost:8000", "https://gardiometamasksnap.web.app"} |->
        IF o = "metamask"
        THEN {"keyring_listAccounts", "keyring_getAccount", "keyring_deleteAccount",
              "keyring_listRequests", "keyring_getRequest", "keyring_submitRequest",
              "keyring_rejectRequest"}
        ELSE DappPermissions]

\* The origins requests come from: those of the table and one it does not name.
Origins == (DOMAIN originPermissions) \cup {"https://example.org"}

\* An entry point that lets every request through.
hasPermission_Always(origin, method) == TRUE

\* hasPermission: originPermissions.get(origin)?.includes(method) ?? false.
hasPermission(origin, method) ==
    IF origin \in DOMAIN originPermissions
    THEN method \in originPermissions[origin]
    ELSE FALSE

\* The entry point op throws before it gets the keyring.
Denied(op) ==
    /\ ReturnNow(op, NoArg, PermissionDenied, {})
    /\ UNCHANGED <<wallets, pendingRequests, durable, nextId, requestGhosts>>

\* handleKeyringRequest(keyring, request): the keyring method the request names,
\* with the arguments of its params; a method the keyring does not implement
\* (exportAccount) and the chain filter, which reads no state, return at once.
handleKeyringRequest(method) ==
    \/ method = "keyring_listAccounts" /\ ListAccounts
    \/ method = "keyring_getAccount" /\ \E id \in 0 .. nextId : GetAccount(id)
    \/ method = "keyring_createAccount"
           /\ \E options \in MixedOptions : CreateAccount(options)
    \/ method = "keyring_updateAccount"
           /\ \E id \in 0 .. nextId : \E account \in UpdateInputs(id) :
                  UpdateAccount(account)
    \/ method = "keyring_deleteAccount" /\ \E id \in 0 .. nextId : DeleteAccount(id)
    \/ method = "keyring_listRequests" /\ ListRequests
    \/ method = "keyring_getRequest"
           /\ \E request \in MixedRequests : GetRequest(request.id)
    \/ method = "keyring_submitRequest"
           /\ \E request \in MixedRequests : SubmitRequest(request)
    \/ method = "keyring_approveRequest"
           /\ \E request \in MixedRequests, data \in MixedData :
                  ApproveRequest(request.id, data)
    \/ method = "keyring_rejectRequest"
           /\ \E request \in MixedRequests : RejectRequest(request.id)
    \/ /\ method \in {"keyring_filterAccountChains", "keyring_exportAccount",
                       IsPendingCreationMethod}
       /\ ReturnNow("handleKeyringRequest", NoArg,
                    IF method = "keyring_filterAccountChains" THEN Ok
                    ELSE UnsupportedMethod, {})
       /\ UNCHANGED <<wallets, pendingRequests, durable, nextId, requestGhosts>>

\* An entry point suspended in await getKeyring(): pc is "getState" while
\* getKeyring awaits getState and "getKeyring" from the return of getKeyring to
\* the moment the entry point goes on.
Loader(entry, origin, method, pc) ==
    [entry |-> entry, origin |-> origin, method |-> method, pc |-> pc]

\* The entry points suspended in getKeyring.
Loading == BagToSet(loading)

\* An entry point can be suspended in getKeyring.
CanLoad ==
    /\ started + BagCardinality(loading) < MaxOps
    /\ BagCardinality(calls) + BagCardinality(loading) < MaxInFlight

\* What the entry point does with the keyring it got.
Dispatch(entry, method) ==
    IF entry = "onRpcRequest" THEN IsPendingCreation ELSE handleKeyringRequest(method)

\* await getKeyring() of an entry point. With an instance there, getKeyring
\* returns it without a host call and the entry point goes on to the keyring
\* method: the stretch between reads and writes nothing but the instance, which
\* is never replaced, so it is one step with the method's. With none there,
\* getKeyring awaits getState.
getKeyring(entry, origin, method) ==
    IF keyring # NoKeyring
    THEN /\ Dispatch(entry, method)
         /\ served' = served \cup {keyring}
         /\ UNCHANGED <<keyring, constructed, loading>>
    ELSE /\ Ready
         /\ CanLoad
         /\ loading' = loading (+) SetToBag({Loader(entry, origin, method, "getState")})
         /\ last' = NoResponse
         /\ hostFailed' = FALSE
         /\ UNCHANGED <<wallets, pendingRequests, durable, nextId, calls, started,
                        requestGhosts, keyring, constructed, served>>

\* stateManagement.getState: the state the host has stored, the empty aggregate
\* when it has stored none.
getState == durable

\* A getKeyring that constructs an instance after every getState.
NewKeyring_NoRecheck ==
    /\ keyring' = constructed + 1
    /\ constructed' = constructed + 1
    /\ wallets' = getState.wallets
    /\ pendingRequests' = getState.pendingRequests

\* if (!keyring) { keyring = new SimpleKeyring(state); } after the await:
\* the instance gets the state getState has read from the host.
NewKeyring ==
    IF keyring = NoKeyring
    THEN /\ keyring' = constructed + 1
         /\ constructed' = constructed + 1
         /\ wallets' = getState.wallets
         /\ pendingRequests' = getState.pendingRequests
    ELSE UNCHANGED <<keyring, constructed, wallets, pendingRequests>>

\* The host completes the getState the entry point l waits for in getKeyring:
\* getKeyring returns the instance, and a rejection fails the entry point.
GetStateReturned(l, ok) ==
    /\ Ready
    /\ l.pc = "getState"
    /\ hostFailed' = ~ ok
    /\ caller' = NoCaller
    /\ UNCHANGED history
    /\ IF ok
       THEN /\ NewKeyring
            /\ loading' = (loading (-) SetToBag({l}))
                              (+) SetToBag({[l EXCEPT !.pc = "getKeyring"]})
            /\ last' = NoResponse
       ELSE /\ loading' = loading (-) SetToBag({l})
            /\ last' = Response(l.entry, NoArg, StorageError, {})
            /\ UNCHANGED <<keyring, constructed, wallets, pendingRequests>>
    /\ UNCHANGED <<durable, nextId, calls, started, requestGhosts, served>>

\* The entry point l goes on after its await getKeyring() with the instance.
GetKeyringReturned(l) ==
    /\ l.pc = "getKeyring"
    /\ caller' = NoCaller
    /\ UNCHANGED history
    /\ loading' = loading (-) SetToBag({l})
    /\ Dispatch(l.entry, l.method)
    /\ served' = served \cup {keyring}
    /\ UNCHANGED <<keyring, constructed>>

\* onKeyringRequest({origin, request}).
OnKeyringRequest(origin, method) ==
    /\ caller' = [origin |-> origin, method |-> method]
    /\ UNCHANGED history
    /\ IF hasPermission(origin, method)
       THEN getKeyring("onKeyringRequest", origin, method)
       ELSE Denied("onKeyringRequest") /\ UNCHANGED processVars

\* onRpcRequest({origin, request}): the internal method goes to the keyring, any
\* other permitted method returns undefined.
OnRpcRequest(origin, method) ==
    /\ caller' = [origin |-> origin, method |-> method]
    /\ UNCHANGED history
    /\ IF ~ hasPermission(origin, method)
       THEN Denied("onRpcRequest") /\ UNCHANGED processVars
       ELSE IF method = IsPendingCreationMethod
            THEN getKeyring("onRpcRequest", origin, method)
            ELSE /\ ReturnNow("onRpcRequest", NoArg, Ok, {})
                 /\ UNCHANGED <<wallets, pendingRequests, durable, nextId,
                                requestGhosts, processVars>>

\* The requests of the snap's callers and the host calls they wait for.
SnapStep ==
    \/ \E origin \in Origins, method \in RpcMethods : OnKeyringRequest(origin, method)
    \/ \E origin \in Origins, method \in RpcMethods : OnRpcRequest(origin, method)
    \/ \E c \in Suspended, ok \in BOOLEAN : CreateAccountEmitted(c, ok)
    \/ \E c \in Suspended, ok \in BOOLEAN : CreateAccountSaved(c, ok)
    \/ \E c \in Suspended, ok \in BOOLEAN : UpdateAccountEmitted(c, ok)
    \/ \E c \in Suspended, ok \in BOOLEAN : DeleteAccountEmitted(c, ok)
    \/ \E c \in Suspended, ok \in BOOLEAN : AccountSaved(c, ok)
    \/ \E c \in Suspended, ok \in BOOLEAN, url \in CurrentUrls : SubmitRequestSaved(c, ok, url)
    \/ \E c \in Suspended, ok \in BOOLEAN : RequestSaved(c, ok)
    \/ \E c \in Suspended, ok \in BOOLEAN : RequestEmitted(c, ok)

\* The snap under every interleaving of the requests its entry points take.
NextSnap == SnapStep \/ Deliver
SpecSnap == InitLoaded /\ [][NextSnap]_vars

\* The origins and the methods of the requests a run from the start of the
\* process is made of: the host and one dapp, reads, a creation and a deletion.
ProcessOrigins == {"metamask", "http://localhost:8000"}
ProcessMethods ==
    {"keyring_listAccounts", "keyring_createAccount", "keyring_deleteAccount",
     IsPendingCreationMethod}

\* The requests the snap takes from the start of its process, the getState its
\* first requests wait for and the host calls of the keyring methods.
ProcessStep ==
    \/ \E origin \in ProcessOrigins, method \in ProcessMethods :
           OnKeyringRequest(origin, method)
    \/ \E origin \in ProcessOrigins, method \in ProcessMethods :
           OnRpcRequest(origin, method)
    \/ \E l \in Loading, ok \in BOOLEAN : GetStateReturned(l, ok)
    \/ \E l \in Loading : GetKeyringReturned(l)
    \/ \E c \in Suspended, ok \in BOOLEAN : CreateAccountEmitted(c, ok)
    \/ \E c \in Suspended, ok \in BOOLEAN : CreateAccountSaved(c, ok)
    \/ \E c \in Suspended, ok \in BOOLEAN : DeleteAccountEmitted(c, ok)
    \/ \E c \in Suspended, ok \in BOOLEAN : AccountSaved(c, ok)

\* The snap from the start of its process, with no keyring yet.
NextProcess == ProcessStep \/ Deliver
SpecProcess == Init /\ [][NextProcess]_vars

\* ------------------------------------------------------------ properties

\* The calls that start on this step and are suspended at their first await.
StartedCalls ==
    {c \in BagToSet(calls') :
        started' = started + 1 /\ CopiesIn(c, calls') > CopiesIn(c, calls)}

\* The calls that resume on this step.
ResumedCalls == {c \in BagToSet(calls) : CopiesIn(c, calls) > CopiesIn(c, calls')}

\* A call of op returns on the step it started on.
ReturnsAtOnce(op) == last.op = "none" /\ last'.op = op /\ calls' = calls

\* Some wallet holds the address.
HeldAddress(a) == \E i \in DOMAIN wallets : wallets[i].account.address = a

\* C1: no two entries of the wallet map have the same address, in every
\* reachable state of every interleaving of the account operations.
C1_AddressUniqueness ==
    \A i, j \in DOMAIN wallets :
        i # j => wallets[i].account.address # wallets[j].account.address

\* C2: a createAccount whose address is held by a wallet returns
\* DuplicateAddress at once; the wallet map and the stored state stay as they
\* are, and no call is left waiting for a notification or a saveState.
C2_DuplicateAddressRejected ==
    [][ /\ \A c \in StartedCalls :
               c.op = "createAccount" => ~ HeldAddress(c.acct.address)
        /\ (ReturnsAtOnce("createAccount") /\ HeldAddress(last'.arg.address))
               => /\ last'.result = DuplicateAddress
                  /\ wallets' = wallets
                  /\ durable' = durable
                  /\ pendingRequests' = pendingRequests ]_vars

\* C2: a createAccount for an address a wallet holds has just failed.
C2_Witness ==
    /\ last.op = "createAccount"
    /\ last.result = DuplicateAddress
    /\ HeldAddress(last.arg.address)
    /\ last.arg.address = Str("0xA")

\* C3: no wallet is stored for a missing or an empty address.
C3_NonEmptyAddressRequired ==
    \A i \in DOMAIN wallets :
        /\ wallets[i].account.address.t = "string"
        /\ wallets[i].account.address.s # ""

\* C4 (first half): a wallet's account keeps its id and its address for as long
\* as the wallet is stored.
C4_IdAndAddressKept ==
    [][ \A i \in (DOMAIN wallets) \cap (DOMAIN wallets') :
            /\ wallets[i].account.id = i
            /\ wallets'[i].account.id = i
            /\ wallets'[i].account.address = wallets[i].account.address ]_vars

\* C4: when the notification of an updateAccount completes and the wallet is
\* still there, the stored account keeps its address and id and has every other
\* field of the incoming record.
C4_UpdateStoresMerged ==
    [][ /\ \A i \in (DOMAIN wallets) \cap (DOMAIN wallets') :
               /\ wallets'[i].account.id = i
               /\ wallets'[i].account.address = wallets[i].account.address
        /\ \A c \in ResumedCalls :
               (/\ c.op = "updateAccount" /\ c.pc = "emit"
                /\ last'.op = "none"
                /\ c.aid \in (DOMAIN wallets) \cap (DOMAIN wallets'))
               => \A f \in (DOMAIN c.incoming) \ {"address"} :
                      wallets'[c.aid].account[f] = c.incoming[f] ]_vars

\* The request stored under id has one of the methods.
PendingWithMethod(id, methods) ==
    id \in DOMAIN pendingRequests /\ pendingRequests[id].request.method \in methods

\* C5: once approveRequest or rejectRequest has returned success for the latest
\* submission of an id, getRequest(id) fails NotFound and listRequests returns no
\* request with that id.
C5_ResolvedRequestNotFound ==
    [][ /\ (ReturnsAtOnce("getRequest") /\ latestSub[last'.arg.rid] \in okResolved)
               => last'.result = NotFound
        /\ ReturnsAtOnce("listRequests")
               => \A r \in last'.value : latestSub[r.id] \notin okResolved ]_vars

\* C5: getRequest has just failed for an id whose latest submission was resolved.
C5_Witness ==
    /\ last.op = "getRequest"
    /\ last.result = NotFound
    /\ latestSub[last.arg.rid] \in okResolved

\* C6: a submission is removed by at most one call and at most one
\* RequestApproved or RequestRejected notification is sent for it; a call that
\* is suspended found its request and removed it, and a call that finds none
\* fails NotFound.
C6_ResolvedAtMostOnce ==
    [][ /\ \A n \in DOMAIN removals' : removals'[n] <= 1 /\ notified'[n] <= 1
        /\ \A c \in StartedCalls :
               c.op \in {"approveRequest", "rejectRequest"}
                   => /\ c.rid \in DOMAIN pendingRequests
                      /\ c.rid \notin DOMAIN pendingRequests'
        /\ \A op \in {"approveRequest", "rejectRequest"} :
               (ReturnsAtOnce(op) /\ last'.arg.rid \notin DOMAIN pendingRequests)
                   => last'.result = NotFound ]_vars

\* C6: an approveRequest removed a submission and its notification is out,
\* and a rejectRequest for the same id, made meanwhile, has failed NotFound.
C6_Witness ==
    /\ last.op = "rejectRequest"
    /\ last.result = NotFound
    /\ \E c \in Suspended :
           /\ c.op = "approveRequest" /\ c.pc = "emit" /\ c.rid = last.arg.rid
           /\ removals[c.sub] = 1 /\ notified[c.sub] = 1

\* C7: submitRequest(r) stores r under r.id as the only entry of that id and
\* leaves the other entries alone; a stored request changes only when its id is
\* submitted again; getRequest returns the stored request; and a submitRequest
\* that returns success returns pending = true after a saveState of a state
\* that holds r.
C7_SubmitRoundTrip ==
    [][ /\ \A c \in StartedCalls :
               c.op = "submitRequest"
                   => /\ c.request.id \in DOMAIN pendingRequests'
                      /\ pendingRequests'[c.request.id] = c.request
                      /\ Cardinality({k \in DOMAIN pendingRequests' :
                                         pendingRequests'[k].id = c.request.id}) = 1
                      /\ \A k \in (DOMAIN pendingRequests) \ {c.request.id} :
                             /\ k \in DOMAIN pendingRequests'
                             /\ pendingRequests'[k] = pendingRequests[k]
        /\ \A k \in (DOMAIN pendingRequests) \cap (DOMAIN pendingRequests') :
               pendingRequests'[k] # pendingRequests[k]
                   => \E c \in StartedCalls :
                          c.op = "submitRequest" /\ c.request.id = k
        /\ (ReturnsAtOnce("getRequest") /\ last'.arg.rid \in DOMAIN pendingRequests)
               => /\ last'.result = Ok
                  /\ last'.value = {pendingRequests[last'.arg.rid]}
        /\ \A c \in ResumedCalls :
               (c.op = "submitRequest" /\ last'.result = Ok)
                   => /\ last'.value # {}
                      /\ \A v \in last'.value : v.pending = TRUE
                      /\ c.request.id \in DOMAIN durable'.pendingRequests
                      /\ durable'.pendingRequests[c.request.id] = c.request ]_vars

\* C7: an id was submitted twice with different requests, and getRequest has
\* just returned the second.
C7_Witness ==
    /\ last.op = "getRequest"
    /\ last.result = Ok
    /\ latestSub[last.arg.rid] = 2
    /\ \A r \in RequestIds \ {last.arg.rid} : latestSub[r] = 0
    /\ \E c, d \in Suspended :
           /\ c.op = "submitRequest" /\ d.op = "submitRequest"
           /\ c.sub = 1 /\ d.sub = 2 /\ c.request # d.request
           /\ last.value = {d.request}

\* The data is an object with a string-valued data property.
StringPayload(d) == d.t = "object" /\ "data" \in DOMAIN d.f /\ d.f["data"].t = "string"

\* C8: for a pending request with a string-payload method, approveRequest goes
\* on (to the removal, the saveState and the RequestApproved notification) only
\* with data that is an object with a string data property, and with that
\* string as the result; with any other data it fails InvalidData at once and
\* the request stays pending.
C8_StringPayload ==
    [][ LET methods == {"personal_sign", "eth_sign", "eth_signTypedData_v1",
                        "eth_signTypedData_v3", "eth_signTypedData_v4",
                        "eth_signUserOperation"}
        IN /\ \A c \in StartedCalls :
                  (c.op = "approveRequest" /\ PendingWithMethod(c.rid, methods))
                      => /\ StringPayload(c.data)
                         /\ c.result = c.data.f["data"]
           /\ (ReturnsAtOnce("approveRequest")
                   /\ PendingWithMethod(last'.arg.rid, methods))
                  => /\ ~ StringPayload(last'.arg.data)
                     /\ last'.result = InvalidData
                     /\ pendingRequests' = pendingRequests
           /\ \A c \in ResumedCalls :
                  (/\ c.op = "approveRequest" /\ c.pc = "persist"
                   /\ c.request.request.method \in methods
                   /\ last'.op = "none")
                      => \E d \in BagToSet(calls') :
                             /\ d.op = "approveRequest" /\ d.pc = "emit"
                             /\ d.rid = c.rid /\ d.result = c.data.f["data"] ]_vars

\* C8: RequestApproved is out for a typed-data request with the string of data.
C8_Witness ==
    \E c \in Suspended :
        /\ c.op = "approveRequest" /\ c.pc = "emit"
        /\ c.request.request.method = "eth_signTypedData_v4"
        /\ c.data = Obj([data |-> Str("0xdead")])
        /\ c.result = Str("0xdead")

\* C9: for a pending request with a structured-payload method, approveRequest
\* goes on only with data that is an object, and with that object as the
\* result; with a string or no data it fails InvalidData at once and the request
\* stays pending.
C9_StructuredPayload ==
    [][ LET methods == {"eth_signTransaction", "eth_prepareUserOperation",
                        "eth_patchUserOperation"}
        IN /\ \A c \in StartedCalls :
                  (c.op = "approveRequest" /\ PendingWithMethod(c.rid, methods))
                      => /\ c.data.t = "object"
                         /\ c.result = c.data
           /\ (ReturnsAtOnce("approveRequest")
                   /\ PendingWithMethod(last'.arg.rid, methods))
                  => /\ last'.arg.data.t # "object"
                     /\ last'.result = InvalidData
                     /\ pendingRequests' = pendingRequests
           /\ \A c \in ResumedCalls :
                  (/\ c.op = "approveRequest" /\ c.pc = "persist"
                   /\ c.request.request.method \in methods
                   /\ last'.op = "none")
                      => \E d \in BagToSet(calls') :
                             /\ d.op = "approveRequest" /\ d.pc = "emit"
                             /\ d.rid = c.rid /\ d.result = c.data ]_vars

\* C9: RequestApproved is out for a transaction request with the data object.
C9_Witness ==
    \E c \in Suspended :
        /\ c.op = "approveRequest" /\ c.pc = "emit"
        /\ c.request.request.method = "eth_signTransaction"
        /\ c.data = Obj([to |-> Str("0x1"), value |-> Str("1")])
        /\ c.result = c.data

\* C10: approveRequest on a pending request whose method is none of the nine
\* known ones fails UnsupportedMethod, with any data and with none, and the
\* request stays pending.
C10_UnknownMethodUnsupported ==
    [][ LET known == {"personal_sign", "eth_sign", "eth_signTypedData_v1",
                      "eth_signTypedData_v3", "eth_signTypedData_v4",
                      "eth_signUserOperation", "eth_signTransaction",
                      "eth_prepareUserOperation", "eth_patchUserOperation"}
        IN /\ \A c \in StartedCalls :
                  c.op = "approveRequest" => PendingWithMethod(c.rid, known)
           /\ (ReturnsAtOnce("approveRequest")
                   /\ last'.arg.rid \in DOMAIN pendingRequests
                   /\ ~ PendingWithMethod(last'.arg.rid, known))
                  => /\ last'.result = UnsupportedMethod
                     /\ pendingRequests' = pendingRequests ]_vars

\* C11: a getAccount, updateAccount, getRequest, approveRequest or rejectRequest
\* that fails NotFound, and an approveRequest that fails InvalidData or
\* UnsupportedMethod, fails on the step it is called on, before any host call:
\* the wallet map, the pending-request map and the stored state are as before,
\* no call is left at a notification or a saveState and none was completed.
C11_ValidationFailureChangesNothing ==
    [][ \A op \in {"getAccount", "updateAccount", "getRequest",
                   "approveRequest", "rejectRequest"} :
            (last'.op = op
                 /\ last'.result \in {NotFound, InvalidData, UnsupportedMethod})
                => /\ ReturnsAtOnce(op)
                   /\ started' = started
                   /\ wallets' = wallets
                   /\ pendingRequests' = pendingRequests
                   /\ durable' = durable
                   /\ notified' = notified ]_vars

\* C11: an approveRequest has just failed InvalidData while an account and the
\* request it was about are stored.
C11_Witness ==
    /\ last.op = "approveRequest"
    /\ last.result = InvalidData
    /\ last.arg.rid \in DOMAIN pendingRequests
    /\ wallets # EmptyMap

\* C12: when deleteAccount(id) returns success, no wallet is stored under id:
\* a getAccount(id) made next fails NotFound and listAccounts holds no account
\* with that id.
C12_DeletedAccountNotFound ==
    [][ \A c \in ResumedCalls :
            (c.op = "deleteAccount" /\ last'.op = "deleteAccount" /\ last'.result = Ok)
                => /\ c.aid \notin DOMAIN wallets'
                   /\ \A w \in Values(wallets') : w.account.id # c.aid ]_vars

\* C13: an id leaves the pending-request map only on the step an
\* approveRequest(id) or rejectRequest(id) gets past its checks, and no step of
\* createAccount, updateAccount, deleteAccount or of a read operation changes
\* the pending-request map.
C13_OnlyResolutionRemoves ==
    [][ /\ \A k \in (DOMAIN pendingRequests) \ (DOMAIN pendingRequests') :
               \E c \in StartedCalls :
                   /\ c.op \in {"approveRequest", "rejectRequest"}
                   /\ c.rid = k
                   /\ last'.op = "none"
        /\ ( \/ last'.op \in {"createAccount", "updateAccount", "deleteAccount",
                                "listAccounts", "getAccount", "listRequests",
                                "getRequest"}
             \/ \E c \in StartedCalls \cup ResumedCalls :
                    c.op \in {"createAccount", "updateAccount", "deleteAccount"} )
               => pendingRequests' = pendingRequests ]_vars

\* C13: deleteAccount has just returned success for an account that was
\* created, and a request for that account is still pending.
C13_Witness ==
    /\ last.op = "deleteAccount"
    /\ last.result = Ok
    /\ last.arg.aid <= nextId
    /\ last.arg.aid \notin DOMAIN wallets
    /\ \E r \in Values(pendingRequests) : r.account = last.arg.aid

\* C14: a request whose origin and method are no pair of the origin-permission
\* table, the origin being in the table or not, fails PermissionDenied in the
\* entry point: no keyring method runs, the wallet map, the pending-request map
\* and the stored state are as before, and no host call is made.
C14_PermissionDenied ==
    [][ (/\ caller' # NoCaller
         /\ ~ (/\ caller'.origin \in DOMAIN originPermissions
               /\ caller'.method \in originPermissions[caller'.origin]))
            => /\ last'.op \in {"onKeyringRequest", "onRpcRequest"}
               /\ last'.result = PermissionDenied
               /\ calls' = calls
               /\ started' = started
               /\ wallets' = wallets
               /\ pendingRequests' = pendingRequests
               /\ durable' = durable
               /\ notified' = notified ]_vars

\* C14: the origin metamask has just been refused approveRequest while a request
\* is pending.
C14_Witness ==
    /\ caller = [origin |-> "metamask", method |-> "keyring_approveRequest"]
    /\ last.op = "onKeyringRequest"
    /\ last.result = PermissionDenied
    /\ pendingRequests # EmptyMap

\* The calls that reach an await on this step.
ArrivedCalls == {d \in BagToSet(calls') : CopiesIn(d, calls') > CopiesIn(d, calls)}

\* C15: a call that changes the aggregate hands saveState the state with its
\* change in it, and createAccount, updateAccount, deleteAccount, submitRequest,
\* approveRequest and rejectRequest return success only after that saveState
\* has completed with success.
C15_PersistBeforeSuccess ==
    [][ LET mutators == {"createAccount", "updateAccount", "deleteAccount",
                         "submitRequest", "approveRequest", "rejectRequest"}
            direct == {"createAccount", "updateAccount", "deleteAccount",
                       "submitRequest"}
            resolving == {"approveRequest", "rejectRequest"}
        IN /\ \A d \in ArrivedCalls :
                  (d.op \in mutators /\ d.pc = "persist")
                      => /\ d.snapshot = [wallets |-> wallets',
                                          pendingRequests |-> pendingRequests']
                         /\ d.op = "createAccount"
                                => /\ d.aid \in DOMAIN wallets'
                                   /\ wallets'[d.aid].account = d.acct
                         /\ (d.op = "updateAccount" /\ wallets' # wallets)
                                => wallets'[d.aid].account = d.acct
                         /\ d.op = "deleteAccount" => d.aid \notin DOMAIN wallets'
                         /\ d.op = "submitRequest"
                                => /\ d.rid \in DOMAIN pendingRequests'
                                   /\ pendingRequests'[d.rid] = d.request
                         /\ d.op \in resolving => d.rid \notin DOMAIN pendingRequests'
           /\ (last'.op \in mutators /\ last'.result = Ok)
                  => \E c \in ResumedCalls :
                         /\ c.op = last'.op
                         /\ c.op \in direct
                                => /\ c.pc = "persist"
                                   /\ ~ hostFailed'
                                   /\ durable' = c.snapshot
                         /\ c.op \in resolving => c.pc = "emit"
           /\ \A c \in ResumedCalls :
                  (c.op \in resolving /\ c.pc = "persist" /\ last'.op = "none")
                      => /\ ~ hostFailed'
                         /\ durable' = c.snapshot ]_vars

\* C15: approveRequest has just returned success with the removal in the stored
\* state, after a createAccount whose wallet is in the stored state as well.
C15_Witness ==
    /\ last.op = "approveRequest"
    /\ last.result = Ok
    /\ last.arg.rid \notin DOMAIN durable.pendingRequests
    /\ wallets # EmptyMap
    /\ durable.wallets = wallets

\* C16: when the RequestApproved or RequestRejected notification fails, after
\* the request was removed, approveRequest or rejectRequest returns success.
C16_NotificationFailureNonFatal ==
    [][ \A c \in ResumedCalls :
            (c.op \in {"approveRequest", "rejectRequest"} /\ c.pc = "emit"
                 /\ hostFailed')
                => /\ last'.op = c.op
                   /\ last'.result = Ok ]_vars

\* C17: when the AccountCreated, AccountUpdated or AccountDeleted notification
\* fails, createAccount, updateAccount or deleteAccount returns a failure on
\* that step, calls no saveState and leaves the stored state as it is.
C17_AccountNotificationFailurePropagates ==
    [][ \A c \in ResumedCalls :
            (c.op \in {"createAccount", "updateAccount", "deleteAccount"}
                 /\ c.pc = "emit" /\ hostFailed')
                => /\ last'.op = c.op
                   /\ last'.result # Ok
                   /\ ArrivedCalls = {}
                   /\ durable' = durable ]_vars

\* C17: deleteAccount has just failed with the error of its notification while
\* a createAccount waits for its own.
C17_Witness ==
    /\ hostFailed
    /\ last.op = "deleteAccount"
    /\ last.result = EmitError
    /\ last.arg.aid \in DOMAIN wallets
    /\ \E c \in Suspended : c.op = "createAccount" /\ c.pc = "emit"

\* C18: when approveRequest or rejectRequest returns, with success or with a
\* failure, and no other call is in flight, the request is absent from the
\* pending-request map and from the stored state, or present in both.
C18_RemovalAndPersistAgree ==
    [][ \A c \in ResumedCalls :
            (c.op \in {"approveRequest", "rejectRequest"} /\ last'.op = c.op
                 /\ calls' = EmptyBag)
                => (c.rid \in DOMAIN pendingRequests')
                       = (c.rid \in DOMAIN durable'.pendingRequests) ]_vars

\* The notification of the resolution of submission n was sent and has failed.
NotificationFailed(n) ==
    /\ n \in DOMAIN notified
    /\ notified[n] = 1
    /\ n \notin okResolved
    /\ ~ \E c \in Suspended :
            c.op \in {"approveRequest", "rejectRequest"} /\ c.pc = "emit" /\ c.sub = n

\* C19: when the RequestApproved or RequestRejected notification fails, the
\* pending-request map and the stored state stay as the removal left them: the
\* id is in neither (unless it was submitted again, or another call's saveState
\* has replaced the stored state), and an approveRequest or rejectRequest made
\* for it afterwards fails NotFound.
C19_NoRollbackOnNotificationFailure ==
    [][ /\ \A c \in ResumedCalls :
               (c.op \in {"approveRequest", "rejectRequest"} /\ c.pc = "emit"
                    /\ hostFailed')
                   => /\ pendingRequests' = pendingRequests
                      /\ durable' = durable
                      /\ latestSub[c.rid] = c.sub
                             => c.rid \notin DOMAIN pendingRequests'
                      /\ durable = c.snapshot
                             => c.rid \notin DOMAIN durable'.pendingRequests
        /\ \A op \in {"approveRequest", "rejectRequest"} :
               (ReturnsAtOnce(op) /\ NotificationFailed(latestSub[last'.arg.rid]))
                   => last'.result = NotFound ]_vars

\* C19: the notification for a request failed, the request is in neither the
\* map nor the stored state, and a rejectRequest for it has just failed NotFound.
C19_Witness ==
    /\ last.op = "rejectRequest"
    /\ last.result = NotFound
    /\ NotificationFailed(latestSub[last.arg.rid])
    /\ last.arg.rid \notin DOMAIN pendingRequests
    /\ last.arg.rid \notin DOMAIN durable.pendingRequests

\* C20: approveRequest and rejectRequest remove, then save, then notify: a call
\* that reaches its saveState has removed the id on that step; the
\* RequestApproved or RequestRejected notification is sent only on the step the
\* call's saveState completes with success, and then the stored state is the
\* one the call handed over, without the id, and the id is not in the
\* pending-request map (unless it was submitted again meanwhile).
C20_RemovePersistEmit ==
    [][ LET resolving == {"approveRequest", "rejectRequest"}
        IN /\ \A d \in ArrivedCalls :
                  (d.op \in resolving /\ d.pc = "persist")
                      => /\ d.rid \in DOMAIN pendingRequests
                         /\ d.rid \notin DOMAIN pendingRequests'
                         /\ d.rid \notin DOMAIN d.snapshot.pendingRequests
                         /\ notified' = notified
           /\ \A d \in ArrivedCalls :
                  (d.op \in resolving /\ d.pc = "emit")
                      => \E c \in ResumedCalls :
                             /\ c.op = d.op /\ c.rid = d.rid /\ c.pc = "persist"
                             /\ ~ hostFailed'
                             /\ durable' = c.snapshot
                             /\ c.rid \notin DOMAIN durable'.pendingRequests
                             /\ latestSub[c.rid] = c.sub
                                    => c.rid \notin DOMAIN pendingRequests'
           /\ \A n \in DOMAIN notified :
                  notified'[n] # notified[n]
                      => \E d \in ArrivedCalls :
                             d.op \in resolving /\ d.pc = "emit" /\ d.sub = n ]_vars

\* C20: the RequestRejected notification of a request is out, and the request
\* is in neither the pending-request map nor the stored state.
C20_Witness ==
    \E c \in Suspended :
        /\ c.op = "rejectRequest" /\ c.pc = "emit"
        /\ notified[c.sub] = 1
        /\ durable = c.snapshot
        /\ c.rid \notin DOMAIN pendingRequests
        /\ c.rid \notin DOMAIN durable.pendingRequests

\* C21: on the step a createAccount, updateAccount or deleteAccount sends its
\* notification, the wallet map already holds the call's change: the created
\* wallet is stored, the updated account is the stored one, the deleted id is
\* absent.
C21_MutationBeforeNotification ==
    [][ \A d \in StartedCalls :
            d.pc = "emit" =>
                /\ d.op = "createAccount"
                       => /\ d.aid \in DOMAIN wallets'
                          /\ wallets'[d.aid].account = d.acct
                /\ d.op = "updateAccount"
                       => /\ d.aid \in DOMAIN wallets'
                          /\ wallets'[d.aid].account = d.acct
                /\ d.op = "deleteAccount"
                       => d.aid \notin DOMAIN wallets' ]_vars

\* C22: when a deleteAccount(id) returns, with success or with the failure of
\* its notification or of its saveState, id is absent from the wallet map.
C22_DeleteRemovesWhateverEmitDid ==
    [][ \A c \in ResumedCalls :
            (c.op = "deleteAccount" /\ last'.op = "deleteAccount")
                => c.aid \notin DOMAIN wallets' ]_vars

\* C23: getKeyring constructs at most one SimpleKeyring however many entry
\* points wait in it for getState at once, the module-level keyring is that
\* instance once it is set, and every keyring method an entry point calls is
\* called on it.
C23_SingleKeyring ==
    /\ constructed <= 1
    /\ keyring \in {NoKeyring, 1}
    /\ served \subseteq {1}
    /\ keyring = NoKeyring => served = {}

\* C23: two entry points went into getKeyring before there was an instance, the
\* getState of both has returned and one instance is constructed.
C23_Witness ==
    /\ constructed = 1
    /\ keyring = 1
    /\ BagCardinality(loading) = 2
    /\ \A l \in Loading : l.pc = "getKeyring"

\* C24: while no createAccount call is in flight no wallet has pendingCreation
\* true, and an IsPendingCreation that has just returned has returned false.
C24_PendingOnlyDuringCreation ==
    (\A c \in Suspended : c.op # "createAccount")
        => /\ \A w \in Values(wallets) : ~ w.pendingCreation
           /\ last.op = "IsPendingCreation" => last.value = {[flag |-> FALSE]}

\* C25: a createAccount that returns the failure of its notification or of its
\* saveState leaves the wallet map as it is, with the wallet it stored still in
\* it under its address unless a deleteAccount has taken it out; and a
\* createAccount for the address of a wallet left behind by such a failure
\* (pendingCreation true, no createAccount of its id in flight) returns
\* DuplicateAddress.
C25_FailedCreateLeavesWallet ==
    [][ /\ \A c \in ResumedCalls :
               (/\ c.op = "createAccount"
                /\ last'.op = "createAccount"
                /\ last'.result \in {EmitError, StorageError})
                   => /\ wallets' = wallets
                      /\ c.aid \in DOMAIN wallets
                             => wallets'[c.aid].account.address = c.acct.address
        /\ (/\ ReturnsAtOnce("createAccount")
            /\ \E i \in DOMAIN wallets :
                   /\ wallets[i].account.address = last'.arg.address
                   /\ wallets[i].pendingCreation
                   /\ \A c \in Suspended : ~ (c.op = "createAccount" /\ c.aid = i))
               => last'.result = DuplicateAddress ]_vars

\* C25: with no call in flight, a createAccount has just failed DuplicateAddress
\* on the address of a wallet that a failed createAccount left behind, and
\* listAccounts holds that wallet's account.
C25_Witness ==
    /\ calls = EmptyBag
    /\ last.op = "createAccount"
    /\ last.result = DuplicateAddress
    /\ \E i \in DOMAIN wallets :
           /\ wallets[i].pendingCreation
           /\ wallets[i].account.address = last.arg.address
           /\ wallets[i].account \in listAccounts

\* C26: an id that a deleteAccount has taken out of the wallet map and
\* returned success for is never in the wallet map again, whatever calls were
\* suspended when the deletion ran.
C26_DeletionNeverUndone == \A i \in deleted : i \notin DOMAIN wallets

\* C27: while no call is in flight and the host has rejected no emit and no
\* saveState so far, the stored state is the in-memory one: the same wallets
\* with the same flags and the same pending requests.
C27_DurableEqualsMemory ==
    (calls = EmptyBag /\ ~ everFailed) => durable = KeyringState
====
